---- MODULE Spec2Model ----
(***************************************************************************)
(* The Wren decomposition engine (lib/wren): from a raw polygon to edges,  *)
(* sub-points, blocks, corners, reinforcers, fin pieces and walls.         *)
(*                                                                         *)
(* Numbers.  finWidth is 12.5, so every coordinate and every length that   *)
(* is stored in a Point is held doubled ("halves"): the point [x, y] of    *)
(* the program is <<2x, 2y>> here.  Loop counters (i, pointDistance) keep  *)
(* the program's unit.  Angles are held exactly, as the direction          *)
(* <<dx, dy, len>> in lowest terms (cos = dx/len, sin = dy/len).  The      *)
(* input polygons have edges that are axis-parallel or 3-4-5 slopes, so    *)
(* every quantity below is an exact integer.                               *)
(*                                                                         *)
(* JavaScript's undefined is the empty tuple; an optional field is a       *)
(* sequence of length 0 or 1.                                              *)
(***************************************************************************)
EXTENDS Integers, Sequences, FiniteSets, TLC

VARIABLES raw,      \* the constructor's argument `points`
          pc,       \* position inside the constructor
          wren,     \* the fields of the Wren object
          shadow    \* a second run on the same raw polygon whose
                    \* normalizedPoints alone is replaced by another value

vars == <<raw, pc, wren, shadow>>

------------------------------------------------------------------------------
\* Constants of lib/wren

pointDistance == 15

\* 2 * 12.5 : finWidth in halves
finWidth == 25

\* the wall distance passed by the constructor (120), in halves
wallDistance == 2 * 120

\* how many points the offsetter may add to or drop from a polygon
MaxCountDrift == 1

------------------------------------------------------------------------------
\* JavaScript values

undefined == <<>>

\* arr[i] with a 0-based index: undefined outside the array
At(arr, i) == IF i >= 0 /\ i < Len(arr) THEN arr[i + 1] ELSE undefined

\* Array.prototype.reverse
Reverse(s) == [k \in 1..Len(s) |-> s[Len(s) + 1 - k]]

\* Array.prototype.slice(-n)
SliceLast(s, n) == IF Len(s) <= n THEN s ELSE SubSeq(s, Len(s) - n + 1, Len(s))

\* Array.prototype.slice(0, n)
SliceFirst(s, n) == IF Len(s) <= n THEN s ELSE SubSeq(s, 1, n)

RECURSIVE Flatten(_)
\* lodash flatMap once the iteratee has been applied
Flatten(ss) == IF ss = <<>> THEN <<>> ELSE Head(ss) \o Flatten(Tail(ss))

------------------------------------------------------------------------------
\* utils/list

\* safeIndex(n)(i): i mod n, never negative
safeIndex(n, i) == i % n

\* loopifyInPairs: [a,b,c] -> [[a,b],[b,c],[c,a]]
loopifyInPairs(ps) ==
    [k \in 1..Len(ps) |-> <<ps[k], ps[safeIndex(Len(ps), k) + 1]>>]

------------------------------------------------------------------------------
\* utils/point

Abs(x) == IF x < 0 THEN -x ELSE x

RECURSIVE Gcd(_, _)
Gcd(a, b) == IF b = 0 THEN a ELSE Gcd(b, a % b)

\* Euclidean distance (exact on the edges used here), in halves
distance(a, b) ==
    LET dx == Abs(b[1] - a[1])
        dy == Abs(b[2] - a[2])
    IN  IF dx = 0 THEN dy
        ELSE IF dy = 0 THEN dx
        ELSE CHOOSE r \in 1..(dx + dy) : r * r = dx * dx + dy * dy

\* the direction from a to b
angle(a, b) ==
    LET dx == b[1] - a[1]
        dy == b[2] - a[2]
        g  == Gcd(Gcd(Abs(dx), Abs(dy)), distance(a, b))
    IN  <<dx \div g, dy \div g, distance(a, b) \div g>>

\* pointOnLine(t)(a, b): the point t (program units) from a towards b
pointOnLine(t, a, b) ==
    LET len == distance(a, b)
    IN  <<a[1] + (2 * t * (b[1] - a[1])) \div len,
          a[2] + (2 * t * (b[2] - a[2])) \div len>>

\* rotateAroundPoint(c, theta)(p)
rotateAroundPoint(c, theta, p) ==
    LET x == p[1] - c[1]
        y == p[2] - c[2]
    IN  <<c[1] + (x * theta[1] - y * theta[2]) \div theta[3],
          c[2] + (x * theta[2] + y * theta[1]) \div theta[3]>>

RECURSIVE MinOf(_, _)
MinOf(s, k) == IF Len(s) = 1 THEN s[1][k]
               ELSE LET m == MinOf(Tail(s), k)
                    IN  IF s[1][k] < m THEN s[1][k] ELSE m

RECURSIVE MaxOf(_, _)
MaxOf(s, k) == IF Len(s) = 1 THEN s[1][k]
               ELSE LET m == MaxOf(Tail(s), k)
                    IN  IF s[1][k] > m THEN s[1][k] ELSE m

\* bounds(points)
bounds(ps) == [minX |-> MinOf(ps, 1), maxX |-> MaxOf(ps, 1),
               minY |-> MinOf(ps, 2), maxY |-> MaxOf(ps, 2)]

------------------------------------------------------------------------------
\* clipper: the polygon offsetter

Sign(x) == IF x < 0 THEN -1 ELSE IF x > 0 THEN 1 ELSE 0

RECURSIVE SumTo(_, _)
SumTo(f, n) == IF n = 0 THEN 0 ELSE f[n] + SumTo(f, n - 1)

\* twice the signed area (shoelace); positive for a counter-clockwise polygon
SignedArea(ps) ==
    LET pairs == loopifyInPairs(ps)
        term  == [k \in 1..Len(ps) |->
                    pairs[k][1][1] * pairs[k][2][2] - pairs[k][2][1] * pairs[k][1][2]]
    IN  SumTo(term, Len(ps))

\* every vertex moved by delta away from (delta > 0) or towards (delta < 0)
\* the middle of the polygon, along both axes (the mitre point of a
\* right-angled corner)
Mitre(ps, delta) ==
    LET b == bounds(ps)
    IN  [k \in 1..Len(ps) |->
            <<ps[k][1] + delta * Sign(2 * ps[k][1] - (b.minX + b.maxX)),
              ps[k][2] + delta * Sign(2 * ps[k][2] - (b.minY + b.maxY))>>]

\* offset(points, {DELTA}) when the offsetter returns Len(points) + drift
\* points: DELTA 0 only normalises the winding; otherwise a join may be cut
\* (one more point, between the last and the first) or merged (a point less)
offset(ps, delta, drift) ==
    LET wound == IF SignedArea(ps) < 0 THEN Reverse(ps) ELSE ps
        moved == Mitre(wound, delta)
        n     == Len(moved)
        cut   == <<(moved[n][1] + moved[1][1]) \div 2,
                   (moved[n][2] + moved[1][2]) \div 2>>
    IN  IF delta = 0 THEN wound
        ELSE IF drift < 0 THEN SubSeq(moved, 1, n + drift)
        ELSE moved \o [k \in 1..drift |-> cut]

\* the point counts the offsetter may return for a polygon of n points
Drifts(n) == {d \in (0 - MaxCountDrift)..MaxCountDrift : n + d >= 3}

------------------------------------------------------------------------------
\* lib/block, lib/corner, lib/wall

\* new Block(angle, p, inner, nextInner, nextOuter, outer)
Block(theta, p, inner, nextInner, nextOuter, outer) ==
    [angle |-> theta, point |-> p, inner |-> inner, nextInner |-> nextInner,
     nextOuter |-> nextOuter, outer |-> outer]

\* new Corner(...): three points of the outer joint, three of the inner joint
Corner(lastOuter, outerVertex, firstOuter, firstInner, innerVertex, lastInner) ==
    [lastOuter |-> lastOuter, outerVertex |-> outerVertex,
     firstOuter |-> firstOuter, firstInner |-> firstInner,
     innerVertex |-> innerVertex, lastInner |-> lastInner]

IsCorner(t) == "outerVertex" \in DOMAIN t

\* geometry.outerPoints of a Block or a Corner: its outer side, start to end
outerPoints(t) == IF IsCorner(t)
                  THEN <<t.lastOuter, t.outerVertex, t.firstOuter>>
                  ELSE <<t.outer, t.nextOuter>>

\* geometry.innerPoints of a Block or a Corner: its inner side, end to start
innerPoints(t) == IF IsCorner(t)
                  THEN <<t.firstInner, t.innerVertex, t.lastInner>>
                  ELSE <<t.nextInner, t.inner>>

\* lodash flatMap(arr, geometry => geometry[side])
flatMap(arr, side) ==
    Flatten([k \in 1..Len(arr) |->
                IF side = "outerPoints" THEN outerPoints(arr[k])
                                        ELSE innerPoints(arr[k])])

\* new Wall(distance, anchor, angle, [from, to]).points: the strip of width
\* |dist| along from -> to, on the side the sign of dist selects
WallPoints(dist, anchor, theta, from, to) ==
    LET nx == (0 - dist * theta[2]) \div theta[3]
        ny == (dist * theta[1]) \div theta[3]
    IN  <<anchor, to, <<to[1] + nx, to[2] + ny>>,
          <<from[1] + nx, from[2] + ny>>>>

------------------------------------------------------------------------------
\* Wren.calculateLines

RECURSIVE StepsBySpacing(_, _)
\* Steps with the increment i += pointDistance
StepsBySpacing(i, len) == IF 4 * i < len
                          THEN <<i>> \o StepsBySpacing(i + pointDistance, len)
                          ELSE <<>>

RECURSIVE Steps(_, _)
\* the values i takes in  for (i = pointDistance; i < halfLength;
\* i += pointDistance * 2) : i < length / 2 with the length in halves
Steps(i, len) == IF 4 * i < len
                 THEN <<i>> \o Steps(i + pointDistance * 2, len)
                 ELSE <<>>

\* SubPointsOf without lastPoints.reverse()
SubPointsOfUnreversed(start, end) ==
    LET is         == Steps(pointDistance, distance(start, end))
        firstPoints == [k \in 1..Len(is) |-> pointOnLine(is[k], start, end)]
        lastPoints  == [k \in 1..Len(is) |-> pointOnLine(is[k], end, start)]
    IN  firstPoints \o lastPoints

\* part 1: the sub-points of the edge start -> end
SubPointsOf(start, end) ==
    LET is         == Steps(pointDistance, distance(start, end))
        firstPoints == [k \in 1..Len(is) |-> pointOnLine(is[k], start, end)]
        lastPoints  == [k \in 1..Len(is) |-> pointOnLine(is[k], end, start)]
    IN  firstPoints \o Reverse(lastPoints)

\* part 2: the sub-points displaced by dy and turned to the edge's angle
Displaced(subPoints, lineAngle, dy) ==
    [k \in 1..Len(subPoints) |->
        rotateAroundPoint(subPoints[k], lineAngle,
                          <<subPoints[k][1], subPoints[k][2] + dy>>)]

\* BlocksOf with the loop bound i < subPoints.length
BlocksOfInclusive(lineAngle, subPoints, innerSubPoints, outerSubPoints) ==
    [k \in 1..Len(subPoints) |->
        Block(lineAngle, At(subPoints, k - 1),
              At(innerSubPoints, k - 1), At(innerSubPoints, k),
              At(outerSubPoints, k), At(outerSubPoints, k - 1))]

\* part 3: for (i = 0; i < subPoints.length - 1; i++) blocks.push(new Block(..))
BlocksOf(lineAngle, subPoints, innerSubPoints, outerSubPoints) ==
    [k \in 1..(Len(subPoints) - 1) |->
        Block(lineAngle, At(subPoints, k - 1),
              At(innerSubPoints, k - 1), At(innerSubPoints, k),
              At(outerSubPoints, k), At(outerSubPoints, k - 1))]

\* one Line record (the corner field is still absent)
LineOf(start, end) ==
    LET lineAngle      == angle(start, end)
        subPoints      == SubPointsOf(start, end)
        innerSubPoints == Displaced(subPoints, lineAngle, finWidth)
        outerSubPoints == Displaced(subPoints, lineAngle, 0 - finWidth)
    IN  [angle |-> lineAngle, length |-> distance(start, end),
         subPoints |-> subPoints, outerSubPoints |-> outerSubPoints,
         innerSubPoints |-> innerSubPoints,
         blocks |-> BlocksOf(lineAngle, subPoints, innerSubPoints, outerSubPoints),
         corner |-> <<>>]

calculateLines(ps) ==
    LET pairs == loopifyInPairs(ps)
    IN  [k \in 1..Len(ps) |-> LineOf(pairs[k][1], pairs[k][2])]

------------------------------------------------------------------------------
\* Wren.calculateCorners

\* CornerOf reading the offset polygons at i instead of nextI
CornerOfOwnVertex(w, i) ==
    LET nextI    == safeIndex(Len(w.lines), i + 1)
        prevLine == w.lines[i + 1]
        nextLine == w.lines[nextI + 1]
    IN  Corner(At(prevLine.outerSubPoints, Len(prevLine.outerSubPoints) - 1),
               At(w.outerPoints, i),
               At(nextLine.outerSubPoints, 0),
               At(nextLine.innerSubPoints, 0),
               At(w.innerPoints, i),
               At(prevLine.innerSubPoints, Len(prevLine.outerSubPoints) - 1))

\* the Corner built in iteration i (0-based)
CornerOf(w, i) ==
    LET nextI    == safeIndex(Len(w.lines), i + 1)
        prevLine == w.lines[i + 1]
        nextLine == w.lines[nextI + 1]
    IN  Corner(At(prevLine.outerSubPoints, Len(prevLine.outerSubPoints) - 1),
               At(w.outerPoints, nextI),
               At(nextLine.outerSubPoints, 0),
               At(nextLine.innerSubPoints, 0),
               At(w.innerPoints, nextI),
               At(prevLine.innerSubPoints, Len(prevLine.outerSubPoints) - 1))

calculateCorners(w) ==
    [w EXCEPT !.lines =
        [k \in 1..Len(w.lines) |->
            [w.lines[k] EXCEPT !.corner = <<CornerOf(w, k - 1)>>]]]

------------------------------------------------------------------------------
\* Wren.calculateReinforcers, Wren.calculateFinPieces

\* Ring with blocks.reverse() evaluated before the first flatMap
RingReversedFirst(blocks) ==
    flatMap(Reverse(blocks), "outerPoints") \o flatMap(Reverse(blocks), "innerPoints")

\* flatMap(blocks, g => g.outerPoints).concat(
\*   flatMap(blocks.reverse(), g => g.innerPoints))
Ring(blocks) ==
    flatMap(blocks, "outerPoints") \o flatMap(Reverse(blocks), "innerPoints")

\* ReinforcerGroup as it would be after calculateFinPieces has reversed every
\* edge's blocks
ReinforcerGroupAfterFinPieces(w, i) ==
    LET nextI    == safeIndex(Len(w.lines), i + 1)
        prevLine == w.lines[i + 1]
        nextLine == w.lines[nextI + 1]
    IN  SliceLast(Reverse(prevLine.blocks), 2) \o prevLine.corner
          \o SliceFirst(Reverse(nextLine.blocks), 2)

\* the tile group of iteration i (0-based): a fresh array
ReinforcerGroup(w, i) ==
    LET nextI    == safeIndex(Len(w.lines), i + 1)
        prevLine == w.lines[i + 1]
        nextLine == w.lines[nextI + 1]
    IN  SliceLast(prevLine.blocks, 2) \o prevLine.corner
          \o SliceFirst(nextLine.blocks, 2)

calculateReinforcers(w) ==
    [w EXCEPT !.reinforcers =
        @ \o [k \in 1..Len(w.lines) |-> Ring(ReinforcerGroup(w, k - 1))]]

\* blocks is this.lines[i].blocks itself, so blocks.reverse() reverses the
\* edge's own array in place
calculateFinPieces(w) ==
    [w EXCEPT !.finPieces =
                  @ \o [k \in 1..Len(w.lines) |-> Ring(w.lines[k].blocks)],
              !.lines =
                  [k \in 1..Len(w.lines) |->
                      [w.lines[k] EXCEPT !.blocks = Reverse(@)]]]

------------------------------------------------------------------------------
\* Wren.calculateWalls

\* this.lines[i] is undefined from i = lines.length on, and reading .angle
\* of it throws a TypeError
WallsThrow(w, ps) == Len(ps) > Len(w.lines)

\* the walls pushed before the loop ends or throws
WallsOf(w, ps, dist) ==
    LET n == IF WallsThrow(w, ps) THEN Len(w.lines) ELSE Len(ps)
    IN  [k \in 1..n |->
            WallPoints(dist, ps[k], w.lines[k].angle,
                       ps[k], ps[safeIndex(Len(ps), k) + 1])]

calculateWalls(w, name, ps, dist) ==
    [w EXCEPT ![name] = @ \o WallsOf(w, ps, dist)]

------------------------------------------------------------------------------
\* The constructor's inputs

\* a polygon given in the program's units, held in halves
Halves(poly) == [k \in 1..Len(poly) |-> <<2 * poly[k][1], 2 * poly[k][2]>>]

Square   == Halves(<< <<0, 0>>, <<100, 0>>, <<100, 100>>, <<0, 100>> >>)

\* edges 24, 32 and 40: exactly one edge shorter than 2 * pointDistance
Triangle == Halves(<< <<0, 0>>, <<24, 0>>, <<24, 32>> >>)

\* edges 160 and 30: an edge whose half is exactly pointDistance
Slab     == Halves(<< <<0, 0>>, <<160, 0>>, <<160, 30>>, <<0, 30>> >>)

\* edges 120, 40, 50 (a 3-4-5 slope), 90 and 80
Trapezium == Halves(<< <<10, 5>>, <<130, 5>>, <<130, 45>>, <<100, 85>>, <<10, 85>> >>)

Polygons == {Square, Reverse(Square), Triangle, Reverse(Triangle),
             Slab, Trapezium}

------------------------------------------------------------------------------
\* The constructor, a step at a time

\* the object after the field initialisers
NewWren == [points |-> undefined, normalizedPoints |-> undefined,
            outerPoints |-> undefined, innerPoints |-> undefined,
            lines |-> undefined,
            reinforcers |-> <<>>, finPieces |-> <<>>,
            outerWalls |-> <<>>, innerWalls |-> <<>>]

\* this.points = offset(points, { DELTA: 0 })
normalizeWinding(w, points) == [w EXCEPT !.points = offset(points, 0, 0)]

\* this.normalizedPoints = this.points.map(...)
normalizePoints(w, points) ==
    LET pointBounds == bounds(points)
    IN  [w EXCEPT !.normalizedPoints =
            [k \in 1..Len(w.points) |->
                <<w.points[k][1] - pointBounds.minX,
                  pointBounds.maxY - w.points[k][2]>>]]

\* values the second run stores in normalizedPoints instead: the working
\* points untransformed, and the centred variant the source has commented out
OtherNormalizedPoints(w, points) ==
    LET pointBounds == bounds(points)
    IN  {w.points,
         [k \in 1..Len(w.points) |->
            <<w.points[k][1] - (pointBounds.minX + pointBounds.maxX) \div 2,
              pointBounds.maxY - w.points[k][2]>>]}

\* offsetOuter applied to the normalized display points
offsetOuterOfNormalized(w, points, drift) ==
    [w EXCEPT !.outerPoints = offset(w.normalizedPoints, finWidth, drift)]

\* this.outerPoints = offset(points, { DELTA: finWidth })
offsetOuter(w, points, drift) ==
    [w EXCEPT !.outerPoints = offset(points, finWidth, drift)]

\* this.innerPoints = offset(points, { DELTA: -finWidth })
offsetInner(w, points, drift) ==
    [w EXCEPT !.innerPoints = offset(points, 0 - finWidth, drift)]

\* this.lines = this.calculateLines(this.points)
decompose(w) == [w EXCEPT !.lines = calculateLines(w.points)]

Init ==
    /\ raw \in Polygons
    /\ pc = "points"
    /\ wren = NewWren
    /\ shadow = NewWren

NormalizeWinding ==
    /\ pc = "points"
    /\ wren' = normalizeWinding(wren, raw)
    /\ shadow' = normalizeWinding(shadow, raw)
    /\ pc' = "normalizedPoints"
    /\ UNCHANGED raw

\* the second run stores another value in normalizedPoints
NormalizePoints ==
    /\ pc = "normalizedPoints"
    /\ wren' = normalizePoints(wren, raw)
    /\ \E other \in OtherNormalizedPoints(wren, raw) :
          shadow' = [shadow EXCEPT !.normalizedPoints = other]
    /\ pc' = "outerPoints"
    /\ UNCHANGED raw

OffsetOuter ==
    /\ pc = "outerPoints"
    /\ \E drift \in Drifts(Len(raw)) :
          /\ wren' = offsetOuter(wren, raw, drift)
          /\ shadow' = offsetOuter(shadow, raw, drift)
    /\ pc' = "innerPoints"
    /\ UNCHANGED raw

OffsetInner ==
    /\ pc = "innerPoints"
    /\ \E drift \in Drifts(Len(raw)) :
          /\ wren' = offsetInner(wren, raw, drift)
          /\ shadow' = offsetInner(shadow, raw, drift)
    /\ pc' = "lines"
    /\ UNCHANGED raw

CalculateLines ==
    /\ pc = "lines"
    /\ wren' = decompose(wren)
    /\ shadow' = decompose(shadow)
    /\ pc' = "corners"
    /\ UNCHANGED raw

CalculateCorners ==
    /\ pc = "corners"
    /\ wren' = calculateCorners(wren)
    /\ shadow' = calculateCorners(shadow)
    /\ pc' = "reinforcers"
    /\ UNCHANGED raw

CalculateReinforcers ==
    /\ pc = "reinforcers"
    /\ wren' = calculateReinforcers(wren)
    /\ shadow' = calculateReinforcers(shadow)
    /\ pc' = "finPieces"
    /\ UNCHANGED raw

CalculateFinPieces ==
    /\ pc = "finPieces"
    /\ wren' = calculateFinPieces(wren)
    /\ shadow' = calculateFinPieces(shadow)
    /\ pc' = "innerWalls"
    /\ UNCHANGED raw

\* this.calculateWalls("innerWalls", this.innerPoints, -120)
CalculateInnerWalls ==
    /\ pc = "innerWalls"
    /\ wren' = calculateWalls(wren, "innerWalls", wren.innerPoints, 0 - wallDistance)
    /\ shadow' = calculateWalls(shadow, "innerWalls", shadow.innerPoints,
                                0 - wallDistance)
    /\ pc' = IF WallsThrow(wren, wren.innerPoints) THEN "threw" ELSE "outerWalls"
    /\ UNCHANGED raw

\* this.calculateWalls("outerWalls", this.outerPoints, 120)
CalculateOuterWalls ==
    /\ pc = "outerWalls"
    /\ wren' = calculateWalls(wren, "outerWalls", wren.outerPoints, wallDistance)
    /\ shadow' = calculateWalls(shadow, "outerWalls", shadow.outerPoints,
                                wallDistance)
    /\ pc' = IF WallsThrow(wren, wren.outerPoints) THEN "threw" ELSE "done"
    /\ UNCHANGED raw

Next ==
    \/ NormalizeWinding
    \/ NormalizePoints
    \/ OffsetOuter
    \/ OffsetInner
    \/ CalculateLines
    \/ CalculateCorners
    \/ CalculateReinforcers
    \/ CalculateFinPieces
    \/ CalculateInnerWalls
    \/ CalculateOuterWalls

Spec == Init /\ [][Next]_vars

------------------------------------------------------------------------------
\* Vocabulary of the properties

LinesBuilt == pc \in {"corners", "reinforcers", "finPieces", "innerWalls",
                      "outerWalls", "done", "threw"}

CornersBuilt == pc \in {"reinforcers", "finPieces", "innerWalls",
                        "outerWalls", "done", "threw"}

ReinforcersBuilt == pc \in {"finPieces", "innerWalls", "outerWalls",
                            "done", "threw"}

FinPiecesBuilt == pc \in {"innerWalls", "outerWalls", "done", "threw"}

Edges == 1..Len(wren.lines)

\* the cyclic successor of edge k (1-based)
Succ(k) == (k % Len(wren.lines)) + 1

\* the end points of edge k
StartOf(k) == wren.points[k]
EndOf(k) == wren.points[(k % Len(wren.points)) + 1]

\* the Block over the sub-point interval j, j + 1 of a line, from its sub-points
TileOf(line, j) ==
    [angle |-> line.angle, point |-> line.subPoints[j],
     inner |-> line.innerSubPoints[j], nextInner |-> line.innerSubPoints[j + 1],
     nextOuter |-> line.outerSubPoints[j + 1], outer |-> line.outerSubPoints[j]]

\* the Blocks of a line in start-to-end order, from its sub-points
TilesOf(line) ==
    [j \in 1..(IF Len(line.subPoints) = 0 THEN 0 ELSE Len(line.subPoints) - 1)
        |-> TileOf(line, j)]

Min2(n) == IF n < 2 THEN n ELSE 2

\* the two tiles nearest the end, and nearest the start, in start-to-end order
LastTwo(tiles) ==
    [j \in 1..Min2(Len(tiles)) |-> tiles[Len(tiles) - Min2(Len(tiles)) + j]]
FirstTwo(tiles) == [j \in 1..Min2(Len(tiles)) |-> tiles[j]]

\* outer points in group order, then inner points in reverse group order
OuterThenInner(tiles) ==
    Flatten([j \in 1..Len(tiles) |-> outerPoints(tiles[j])])
      \o Flatten([j \in 1..Len(tiles) |-> innerPoints(tiles[Len(tiles) + 1 - j])])

------------------------------------------------------------------------------
\* C1: once calculateLines has run, every edge has as many inner and outer
\* sub-points as sub-points, and max(subPoints.length - 1, 0) blocks.
C1_Lengths ==
    LinesBuilt =>
        \A k \in Edges :
            LET line == wren.lines[k]
                n    == Len(line.subPoints)
            IN  /\ Len(line.innerSubPoints) = n
                /\ Len(line.outerSubPoints) = n
                /\ Len(line.blocks) = IF n - 1 > 0 THEN n - 1 ELSE 0

\* a finished run with an edge without sub-points and an edge with six
C1_Witness ==
    /\ pc = "done"
    /\ \E k \in Edges : Len(wren.lines[k].subPoints) = 0
    /\ \E k \in Edges : /\ Len(wren.lines[k].subPoints) = 6
                        /\ Len(wren.lines[k].blocks) = 5

\* C2: after the whole constructor has run, blocks[j] of every edge is still
\* the Block built from sub-points j and j + 1: the blocks stay in
\* start-to-end order and no aggregation pass changes them.
C2_BlocksKeepOrder ==
    pc = "done" =>
        \A k \in Edges :
            /\ Len(wren.lines[k].blocks) = Len(TilesOf(wren.lines[k]))
            /\ \A j \in 1..Len(wren.lines[k].blocks) :
                  wren.lines[k].blocks[j] = TileOf(wren.lines[k], j)

\* the sub-point distances of one half of edge k, measured from `from`
HalfDistances(k, from) ==
    LET sub == wren.lines[k].subPoints
        h   == Len(sub) \div 2
    IN  IF from = "start"
        THEN [j \in 1..h |-> distance(StartOf(k), sub[j])]
        ELSE [j \in 1..h |-> distance(EndOf(k), sub[Len(sub) + 1 - j])]

\* C3 as stated: within each half consecutive sub-points are pointDistance
\* apart, and every edge of the square has 3 sub-points per half, at 15, 30
\* and 45 from the nearer end, 6 in all.
C3_SpacingIsPointDistance ==
    LinesBuilt =>
        \A k \in Edges :
            /\ \A from \in {"start", "end"} :
                  LET d == HalfDistances(k, from)
                  IN  \A j \in 1..(Len(d) - 1) :
                          d[j + 1] - d[j] = 2 * pointDistance
            /\ raw = Square =>
                  /\ Len(wren.lines[k].subPoints) = 6
                  /\ HalfDistances(k, "start") = <<2 * 15, 2 * 30, 2 * 45>>
                  /\ HalfDistances(k, "end") = <<2 * 15, 2 * 30, 2 * 45>>

\* C3 amended: from each end the first sub-point is pointDistance away and
\* the following ones 2 * pointDistance apart; every edge of the square has
\* 2 sub-points per half, at 15 and 45 from the nearer end, 4 in all.
C3_SpacingIsTwicePointDistance ==
    LinesBuilt =>
        \A k \in Edges :
            /\ \A from \in {"start", "end"} :
                  LET d == HalfDistances(k, from)
                  IN  /\ Len(d) > 0 => d[1] = 2 * pointDistance
                      /\ \A j \in 1..(Len(d) - 1) :
                            d[j + 1] - d[j] = 2 * (2 * pointDistance)
            /\ raw = Square =>
                  /\ Len(wren.lines[k].subPoints) = 4
                  /\ HalfDistances(k, "start") = <<2 * 15, 2 * 45>>
                  /\ HalfDistances(k, "end") = <<2 * 15, 2 * 45>>

\* the square, decomposed: four edges of four sub-points
C3_Witness ==
    /\ LinesBuilt
    /\ raw = Square
    /\ Len(wren.lines) = 4
    /\ \A k \in Edges : Len(wren.lines[k].subPoints) = 4

\* C4: reinforcer i is the ring (outer points in group order, then inner
\* points in reverse group order) of the group: last two Blocks of edge i in
\* start-to-end order, Corner of edge i, first two Blocks of edge i + 1.
C4_Reinforcers ==
    ReinforcersBuilt =>
        /\ Len(wren.reinforcers) = Len(wren.lines)
        /\ \A k \in Edges :
              wren.reinforcers[k] =
                  OuterThenInner(LastTwo(TilesOf(wren.lines[k]))
                                   \o wren.lines[k].corner
                                   \o FirstTwo(TilesOf(wren.lines[Succ(k)])))

\* a finished run where some reinforcer spans two blocks, the corner and two
\* blocks, the edges around it having more than two blocks each
C4_Witness ==
    /\ pc = "done"
    /\ \E k \in Edges :
          /\ Len(wren.lines[k].blocks) > 2
          /\ Len(wren.lines[Succ(k)].blocks) > 2
          /\ Len(wren.reinforcers[k]) = 2 * (2 * 2 + 3 + 2 * 2)

\* C5: there is one fin-piece loop per edge, at the edge's index, and it is
\* the outer points of the edge's Blocks in start-to-end order followed by
\* their inner points in reverse block order.
C5_FinPieces ==
    FinPiecesBuilt =>
        /\ Len(wren.finPieces) = Len(wren.lines)
        /\ \A k \in Edges :
              wren.finPieces[k] = OuterThenInner(TilesOf(wren.lines[k]))

\* a finished run with a fin piece over five blocks and an empty one
C5_Witness ==
    /\ pc = "done"
    /\ \E k \in Edges : Len(wren.finPieces[k]) = 4 * 5
    /\ \E k \in Edges : wren.finPieces[k] = <<>>

\* C6: after calculateCorners every edge has exactly one Corner, built in
\* this order from the last outer sub-point of the edge, the outer offset
\* point at the successor's index, the first outer and first inner sub-point
\* of the successor, the inner offset point at the successor's index and the
\* last inner sub-point of the edge.
C6_Corners ==
    CornersBuilt =>
        \A k \in Edges :
            LET line == wren.lines[k]
                next == wren.lines[Succ(k)]
            IN  /\ Len(line.corner) = 1
                /\ Len(line.subPoints) > 0 =>
                      /\ line.corner[1].lastOuter =
                            line.outerSubPoints[Len(line.outerSubPoints)]
                      /\ line.corner[1].lastInner =
                            line.innerSubPoints[Len(line.innerSubPoints)]
                /\ Len(next.subPoints) > 0 =>
                      /\ line.corner[1].firstOuter = next.outerSubPoints[1]
                      /\ line.corner[1].firstInner = next.innerSubPoints[1]
                /\ Succ(k) <= Len(wren.outerPoints) =>
                      line.corner[1].outerVertex = wren.outerPoints[Succ(k)]
                /\ Succ(k) <= Len(wren.innerPoints) =>
                      line.corner[1].innerVertex = wren.innerPoints[Succ(k)]

\* a finished run where every edge has sub-points and both offset polygons
\* have a point for every vertex
C6_Witness ==
    /\ pc = "done"
    /\ Len(wren.lines) = 5
    /\ Len(wren.outerPoints) = 5
    /\ Len(wren.innerPoints) = 5
    /\ \A k \in Edges : Len(wren.lines[k].subPoints) > 0

\* the boundary points of a Corner
CornerPoints(c) == {c.lastOuter, c.outerVertex, c.firstOuter,
                    c.firstInner, c.innerVertex, c.lastInner}

\* C7: in the triangle with one edge shorter than 2 * pointDistance, that
\* edge alone has no sub-points and no Blocks, the two other edges have
\* theirs, and every boundary point of their Corners is a defined point.
C7_ShortEdgeIsLocal ==
    (/\ CornersBuilt
     /\ raw \in {Triangle, Reverse(Triangle)}
     /\ Len(wren.outerPoints) = 3
     /\ Len(wren.innerPoints) = 3) =>
        \A k \in Edges :
            IF wren.lines[k].length < 2 * (2 * pointDistance)
            THEN /\ wren.lines[k].subPoints = <<>>
                 /\ wren.lines[k].blocks = <<>>
            ELSE /\ Len(wren.lines[k].subPoints) = 2
                 /\ Len(wren.lines[k].blocks) = 1
                 /\ Len(wren.lines[k].corner) = 1
                 /\ undefined \notin CornerPoints(wren.lines[k].corner[1])

\* C8: the sub-points of an edge of length L are mirrored about its middle,
\* those of the first half nearer than L/2 to the start and those of the
\* second half nearer than L/2 to the end, so their distances from the start
\* increase strictly along the list.
C8_Symmetric ==
    LinesBuilt =>
        \A k \in Edges :
            LET sub == wren.lines[k].subPoints
                n   == Len(sub)
                L   == distance(StartOf(k), EndOf(k))
            IN  /\ n % 2 = 0
                /\ wren.lines[k].length = L
                /\ \A j \in 1..n :
                      distance(StartOf(k), sub[j]) =
                          distance(EndOf(k), sub[n + 1 - j])
                /\ \A j \in 1..(n \div 2) :
                      2 * distance(StartOf(k), sub[j]) < L
                /\ \A j \in (n \div 2 + 1)..n :
                      2 * distance(EndOf(k), sub[j]) < L
                /\ \A j \in 1..(n - 1) :
                      distance(StartOf(k), sub[j]) <
                          distance(StartOf(k), sub[j + 1])

\* a decomposed polygon with a sloped edge carrying sub-points and an edge
\* with two sub-points in each half
C8_Witness ==
    /\ LinesBuilt
    /\ \E k \in Edges : /\ wren.lines[k].angle = <<-3, 4, 5>>
                        /\ Len(wren.lines[k].subPoints) = 2
    /\ \E k \in Edges : Len(wren.lines[k].subPoints) = 4

\* C9: whatever point counts the offsetter returns, the constructor completes
\* with one inner Wall per inner offset point and one outer Wall per outer
\* offset point.
C9_WallPerOffsetPoint ==
    /\ pc # "threw"
    /\ pc = "done" =>
          /\ Len(wren.innerWalls) = Len(wren.innerPoints)
          /\ Len(wren.outerWalls) = Len(wren.outerPoints)

\* the fields of the object other than normalizedPoints
Geometry == {"points", "outerPoints", "innerPoints", "lines", "reinforcers",
             "finPieces", "innerWalls", "outerWalls"}

\* C10: the run that stored another value in normalizedPoints has the same
\* offsets, lines, reinforcers, fin pieces and walls, the offsets being those
\* of the raw polygon.
C10_NormalizedPointsUnread ==
    /\ \A f \in Geometry : wren[f] = shadow[f]
    /\ pc \in {"lines", "corners", "reinforcers", "finPieces", "innerWalls",
               "outerWalls", "done", "threw"} =>
          /\ \E drift \in Drifts(Len(raw)) :
                wren.outerPoints = offset(raw, finWidth, drift)
          /\ \E drift \in Drifts(Len(raw)) :
                wren.innerPoints = offset(raw, 0 - finWidth, drift)

\* two finished runs whose normalizedPoints differ
C10_Witness ==
    /\ pc = "done"
    /\ wren.normalizedPoints # shadow.normalizedPoints
    /\ wren.normalizedPoints # wren.points
    /\ wren.reinforcers # <<>>
    /\ wren.outerWalls # <<>>

====
